---------------------------- MODULE Spec2Model ----------------------------
(***************************************************************************)
(* Model of the access-provisioning bot: the users table (storage.py), the  *)
(* retrying Drive share call (drive_utils.py) and the registration         *)
(* handlers (bot.py).  Every handler invocation is a task; a task step is   *)
(* the code between two suspension points (await), so handlers of the same *)
(* or of different users interleave exactly at their awaits: the           *)
(* dispatcher is built without events isolation (bot.py:99) and polls with *)
(* its default of handling every update as its own asyncio task            *)
(* (bot.py:369).                                                            *)
(***************************************************************************)
EXTENDS Integers, Sequences, FiniteSets, Bags, TLC

\* ------------------------------------------------------------------ bounds
\* Number of telegram users that send events.
NumUsers == 1
\* Number of handler invocations that may be in flight at the same time.
MaxTasks == 2
\* Number of telegram ids the store is called with when it is exercised on its own.
NumIds == 3
\* Number of users whose handlers run side by side.
NumPeers == 2

Users == 1..NumUsers

\* ------------------------------------------------------------ configuration
NULL == "NULL"

TEAM_CHOICES == {"T1", "T2"}
\* callback payloads after the "team|" prefix: the buttons, and a stale one
CallbackTeams == TEAM_CHOICES \cup {"T9"}

\* TEAM_FOLDER_MAP: T1 has its own folder, T2 has none
TEAM_FOLDER_MAP == [x \in {"T1"} |-> "F1"]

MAX_SHARE_ATTEMPTS == 3

Phones == {"+201"}

\* ------------------------------------------------------------------- text
\* Message texts, and their spelling as character sequences.
Texts == {"", "not-an-email", "a@b", "@b.c", "a b@c.d", "a@b.c", " a@b.c ", "x@y.z"}

Chars(s) ==
    CASE s = ""             -> << >>
      [] s = "not-an-email" -> <<"n","o","t","-","a","n","-","e","m","a","i","l">>
      [] s = "a@b"          -> <<"a","@","b">>
      [] s = "@b.c"         -> <<"@","b",".","c">>
      [] s = "a b@c.d"      -> <<"a"," ","b","@","c",".","d">>
      [] s = "a@b.c"        -> <<"a","@","b",".","c">>
      [] s = " a@b.c "      -> <<" ","a","@","b",".","c"," ">>
      [] s = "x@y.z"        -> <<"x","@","y",".","z">>

Str(cs) == CHOOSE s \in Texts : Chars(s) = cs

IsSpace(c) == c = " "

RECURSIVE LStrip(_)
LStrip(cs) == IF cs # << >> /\ IsSpace(Head(cs)) THEN LStrip(Tail(cs)) ELSE cs

RECURSIVE RStrip(_)
RStrip(cs) ==
    IF cs # << >> /\ IsSpace(cs[Len(cs)]) THEN RStrip(SubSeq(cs, 1, Len(cs) - 1)) ELSE cs

\* str.strip()
Strip(cs) == RStrip(LStrip(cs))

\* the character class [^@\s]
NotAtNotSpace(c) == c # "@" /\ ~IsSpace(c)

\* cs[a..b] is a non-empty run of [^@\s]
Run(cs, a, b) == a <= b /\ \A k \in a..b : NotAtNotSpace(cs[k])

\* the pattern without its "\." part: [^@\s]+ @ [^@\s]+
EMAIL_REGEX_NoDot(cs) ==
    \E i \in 1..Len(cs) :
        cs[i] = "@" /\ Run(cs, 1, i - 1) /\ Run(cs, i + 1, Len(cs))

\* EMAIL_REGEX.fullmatch: [^@\s]+ @ [^@\s]+ \. [^@\s]+
EMAIL_REGEX(cs) ==
    \E i, j \in 1..Len(cs) :
        /\ i < j
        /\ cs[i] = "@"
        /\ cs[j] = "."
        /\ Run(cs, 1, i - 1)
        /\ Run(cs, i + 1, j - 1)
        /\ Run(cs, j + 1, Len(cs))

\* the test of bot.py:206, on the stripped text
EmailAccepted(cs) == cs # << >> /\ EMAIL_REGEX(cs)


\* ------------------------------------------------------------------ state
VARIABLES
    env,     \* process environment read at import: DEFAULT_DRIVE_FOLDER
    users,   \* the users table: telegram_id -> row, or NoRow
    fsm,     \* MemoryStorage: telegram_id -> registration state (NULL: no state)
    perms,   \* the remote service: <<folder, email>> pairs that have a permission
    tasks    \* handler invocations in flight: a bag of task records

vars == <<env, users, fsm, perms, tasks>>

\* RegistrationStates (NULL is the cleared state, the spec's Idle)
waiting_for_phone == "waiting_for_phone"
waiting_for_team == "waiting_for_team"
waiting_for_email == "waiting_for_email"

\* CREATE TABLE users: the columns the handlers read or write
NoRow == [phone |-> "NOROW", team |-> "NOROW", email |-> "NOROW", shared_at |-> "NOROW"]

\* datetime.utcnow().isoformat(): some non-null text; only its nullness is ever read
Now == "utcnow"

\* what one permissions().create(...).execute() can do
HttpStatuses == {400, 403, 404, 409, 429, 500}
NetworkExceptions == {"SSLError", "timeout"}
Replies ==
    {[exc |-> "none", status |-> 200]}
        \cup {[exc |-> "HttpError", status |-> s] : s \in HttpStatuses}
        \cup {[exc |-> e, status |-> 0] : e \in NetworkExceptions \cup {"Exception"}}
NoReply == [exc |-> "none", status |-> 0]

\* a task: the handler, its user, where it is suspended, its locals, and counters
\* of what this invocation has done so far (writes, calls, sleeps, records); out is
\* how share_folder_with_user ended: the folder it returned, or the exception
Blank ==
    [h |-> "none", u |-> 0, pc |-> "none", arg |-> NULL, email |-> NULL,
     has_phone |-> FALSE, team |-> NULL, folder |-> NULL, attempt |-> 0,
     last |-> NoReply, out |-> "none", msg |-> "none",
     writes |-> 0, calls |-> 0, sleeps |-> << >>, records |-> 0]

NewTask(h, u, pc, arg) == [Blank EXCEPT !.h = h, !.u = u, !.pc = pc, !.arg = arg]

Init ==
    /\ env \in [DEFAULT_DRIVE_FOLDER : {NULL, "F0"}]
    /\ users = [u \in Users |-> NoRow]
    /\ fsm = [u \in Users |-> NULL]
    /\ perms = {}
    /\ tasks = EmptyBag

\* ---------------------------------------------------------------- storage
\* _ensure_user_sync: INSERT ... ON CONFLICT(telegram_id) DO UPDATE SET phone = ...
ensure_user(tbl, id, phone) ==
    IF tbl[id] = NoRow
    THEN [tbl EXCEPT ![id] = [phone |-> phone, team |-> NULL, email |-> NULL, shared_at |-> NULL]]
    ELSE [tbl EXCEPT ![id].phone = phone]

\* the team is not written
update_team_NoWrite(tbl, id, team) == tbl

\* _update_field_sync: UPDATE users SET {field} = ? WHERE telegram_id = ?
update_team(tbl, id, team) ==
    IF tbl[id] = NoRow THEN tbl ELSE [tbl EXCEPT ![id].team = team]

\* an update of the email that also resets shared_at
update_email_ClearsShare(tbl, id, email) ==
    IF tbl[id] = NoRow THEN tbl ELSE [tbl EXCEPT ![id].email = email, ![id].shared_at = NULL]

update_email(tbl, id, email) ==
    IF tbl[id] = NoRow THEN tbl ELSE [tbl EXCEPT ![id].email = email]

\* the UPDATE matches no row
record_share_NoRow(tbl, id) == tbl

\* the UPDATE without its WHERE clause: every row is written
record_share_NoWhere(tbl, id) ==
    [i \in DOMAIN tbl |-> IF tbl[i] = NoRow THEN NoRow ELSE [tbl[i] EXCEPT !.shared_at = Now]]

\* _record_share_sync: UPDATE users SET shared_at = ? WHERE telegram_id = ?
record_share(tbl, id) ==
    IF tbl[id] = NoRow THEN tbl ELSE [tbl EXCEPT ![id].shared_at = Now]

\* _fetch_user_sync: the row, or None
get_user(tbl, id) == tbl[id]

\* ------------------------------------------------------------ drive_utils
\* without the raise of line 82: a folder for every team
_folder_for_team_NoRaise(team) ==
    IF team \in DOMAIN TEAM_FOLDER_MAP THEN TEAM_FOLDER_MAP[team] ELSE "F0"

\* _folder_for_team: the folder, or NULL where the code raises ValueError
_folder_for_team(team) ==
    IF team \in DOMAIN TEAM_FOLDER_MAP THEN TEAM_FOLDER_MAP[team]
    ELSE IF env.DEFAULT_DRIVE_FOLDER # NULL THEN env.DEFAULT_DRIVE_FOLDER
    ELSE NULL

\* _is_network_error
_is_network_error(r) == r.exc \in NetworkExceptions

\* _map_user_message
_map_user_message(r) ==
    IF r.exc = "HttpError" /\ r.status \in {400, 404} THEN "bad_address"
    ELSE IF r.exc = "HttpError" /\ r.status = 403 THEN "no_access"
    ELSE IF _is_network_error(r) THEN "network"
    ELSE "unexpected"

\* without the 409 case of lines 141-143
AttemptOutcome_No409(attempt, r) ==
    IF r.exc = "none" THEN "return"
    ELSE IF attempt = MAX_SHARE_ATTEMPTS THEN "raise"
    ELSE "next"

\* without the raise of lines 145-146 and 157-158
AttemptOutcome_NoRaise(attempt, r) ==
    IF r.exc = "none" THEN "return"
    ELSE IF r.exc = "HttpError" /\ r.status = 409 THEN "return"
    ELSE "next"

\* without the raise of lines 157-158: only an HttpError ends the last pass
AttemptOutcome_RaiseHttpOnly(attempt, r) ==
    IF r.exc = "none" THEN "return"
    ELSE IF r.exc = "HttpError" /\ r.status = 409 THEN "return"
    ELSE IF attempt = MAX_SHARE_ATTEMPTS /\ r.exc = "HttpError" THEN "raise"
    ELSE "next"

\* one pass of the loop body of _share_folder_sync, lines 130-166:
\* "return" (138, 143), "raise" (146, 158) or "next" (falls to line 167)
AttemptOutcome(attempt, r) ==
    IF r.exc = "none" THEN "return"
    ELSE IF r.exc = "HttpError" /\ r.status = 409 THEN "return"
    ELSE IF attempt = MAX_SHARE_ATTEMPTS THEN "raise"
    ELSE "next"

\* a sleep that does not grow with the attempt
Backoff_Constant(attempt) == 15

\* min(attempt * 1.5, 5), in tenths of a second
Backoff(attempt) == IF attempt * 15 < 50 THEN attempt * 15 ELSE 50


\* --------------------------------------------------------------- handlers
Tasks == BagToSet(tasks)

\* no handler of user u is in flight
Quiet(u) == \A k \in Tasks : k.u # u

\* the dispatcher starts a handler for an update: one more task
Begin(k) ==
    /\ BagCardinality(tasks) < MaxTasks
    /\ tasks' = tasks (+) SetToBag({k})

\* task k resumes and suspends again as k2
Resume(k, k2) == tasks' = (tasks (-) SetToBag({k})) (+) SetToBag({k2})

\* task k resumes and returns
Return(k) == tasks' = tasks (-) SetToBag({k})

\* start_command, up to its first suspension: state.clear(), then get_user is awaited
StartBegin(u) ==
    /\ Begin(NewTask("start_command", u, "get_user", NULL))
    /\ fsm' = [fsm EXCEPT ![u] = NULL]
    /\ UNCHANGED <<env, users, perms>>

\* get_user returns; the profile test of line 147; the answer is awaited
StartGetUser(k) ==
    /\ k.h = "start_command" /\ k.pc = "get_user"
    /\ LET profile == get_user(users, k.u)
           known == profile # NoRow /\ profile.phone # NULL
       IN Resume(k, [k EXCEPT !.has_phone = known,
                              !.msg = IF known THEN "welcome_back" ELSE "need_phone",
                              !.pc = "set_state"])
    /\ UNCHANGED <<env, users, fsm, perms>>

\* without the branch of lines 147-154: every user is asked for the phone
StartSetState_AlwaysPhone(k) ==
    /\ k.h = "start_command" /\ k.pc = "set_state"
    /\ fsm' = [fsm EXCEPT ![k.u] = waiting_for_phone]
    /\ Return(k)
    /\ UNCHANGED <<env, users, perms>>

\* lines 153 and 159
StartSetState(k) ==
    /\ k.h = "start_command" /\ k.pc = "set_state"
    /\ fsm' = [fsm EXCEPT ![k.u] = IF k.has_phone THEN waiting_for_team ELSE waiting_for_phone]
    /\ Return(k)
    /\ UNCHANGED <<env, users, perms>>

\* set_state moved to the top of collect_contact, before ensure_user
ContactBegin_SetFirst(u, phone) ==
    /\ fsm[u] = waiting_for_phone
    /\ Begin(NewTask("collect_contact", u, "ensure_user", phone))
    /\ fsm' = [fsm EXCEPT ![u] = waiting_for_team]
    /\ UNCHANGED <<env, users, perms>>

\* collect_contact: filter waiting_for_phone and F.contact; ensure_user is awaited
ContactBegin(u, phone) ==
    /\ fsm[u] = waiting_for_phone
    /\ Begin(NewTask("collect_contact", u, "ensure_user", phone))
    /\ UNCHANGED <<env, users, fsm, perms>>

\* lines 166-172, in its thread; the answer is awaited
ContactEnsureUser(k) ==
    /\ k.h = "collect_contact" /\ k.pc = "ensure_user"
    /\ users' = ensure_user(users, k.u, k.arg)
    /\ Resume(k, [k EXCEPT !.writes = @ + 1, !.msg = "choose_team", !.pc = "set_state"])
    /\ UNCHANGED <<env, fsm, perms>>

\* line 177
ContactSetState(k) ==
    /\ k.h = "collect_contact" /\ k.pc = "set_state"
    /\ fsm' = [fsm EXCEPT ![k.u] = waiting_for_team]
    /\ Return(k)
    /\ UNCHANGED <<env, users, perms>>

\* force_contact: filter waiting_for_phone, any other message; only answers
ForceContactBegin(u) ==
    /\ fsm[u] = waiting_for_phone
    /\ Begin([NewTask("force_contact", u, "answer", NULL) EXCEPT !.msg = "need_contact"])
    /\ UNCHANGED <<env, users, fsm, perms>>

\* a handler whose last await is message.answer(...) returns (lines 185, 194, 208)
AnswerReturn(k) ==
    /\ k.pc = "answer"
    /\ Return(k)
    /\ UNCHANGED <<env, users, fsm, perms>>

\* select_team: filter waiting_for_team and data "team|..."; callback.answer() is awaited
TeamBegin(u, team) ==
    /\ fsm[u] = waiting_for_team
    /\ Begin(NewTask("select_team", u, "callback_answer", team))
    /\ UNCHANGED <<env, users, fsm, perms>>

\* without the membership test of lines 192-194
TeamUpdate_NoCheck(k) ==
    /\ k.h = "select_team" /\ k.pc = "callback_answer"
    /\ users' = update_team(users, k.u, k.arg)
    /\ Resume(k, [k EXCEPT !.team = k.arg, !.writes = @ + 1,
                           !.msg = "send_email", !.pc = "set_state"])
    /\ UNCHANGED <<env, fsm, perms>>

\* lines 191-195: the membership test, then update_team runs in its thread
TeamUpdate(k) ==
    /\ k.h = "select_team" /\ k.pc = "callback_answer"
    /\ IF k.arg \notin TEAM_CHOICES
       THEN /\ Resume(k, [k EXCEPT !.msg = "unknown_team", !.pc = "answer"])
            /\ UNCHANGED users
       ELSE /\ users' = update_team(users, k.u, k.arg)
            /\ Resume(k, [k EXCEPT !.team = k.arg, !.writes = @ + 1,
                                   !.msg = "send_email", !.pc = "set_state"])
    /\ UNCHANGED <<env, fsm, perms>>

\* line 200
TeamSetState(k) ==
    /\ k.h = "select_team" /\ k.pc = "set_state"
    /\ fsm' = [fsm EXCEPT ![k.u] = waiting_for_email]
    /\ Return(k)
    /\ UNCHANGED <<env, users, perms>>

\* collect_email: filter waiting_for_email; lines 205-209 up to the first await.
\* message.text is read at line 205 only: a task keeps it while it is rejecting it
EmailBegin(u, text) ==
    /\ fsm[u] = waiting_for_email
    /\ LET email == Strip(Chars(text))
       IN Begin(IF ~EmailAccepted(email)
                THEN [NewTask("collect_email", u, "answer", text) EXCEPT !.msg = "invalid_email"]
                ELSE [NewTask("collect_email", u, "update_email", NULL)
                         EXCEPT !.email = Str(email)])
    /\ UNCHANGED <<env, users, fsm, perms>>

\* line 209, in its thread
EmailUpdate(k) ==
    /\ k.h = "collect_email" /\ k.pc = "update_email"
    /\ users' = update_email(users, k.u, k.email)
    /\ Resume(k, [k EXCEPT !.writes = @ + 1, !.pc = "get_user"])
    /\ UNCHANGED <<env, fsm, perms>>

\* the result of lines 121-123 of _share_folder_sync for a task about to share:
\* _folder_for_team raises ValueError (caught at line 235), or the loop starts
ShareStart(task) ==
    LET folder_id == _folder_for_team(task.team)
    IN IF folder_id = NULL
       THEN [task EXCEPT !.out = "Exception", !.msg = "share_error", !.pc = "clear"]
       ELSE [task EXCEPT !.folder = folder_id, !.attempt = 1, !.pc = "attempt"]

\* lines 210-224: the profile is read; without a profile or a team the handler
\* answers and clears, otherwise share_folder_with_user starts in its thread
EmailGetUser(k) ==
    /\ k.h = "collect_email" /\ k.pc = "get_user"
    /\ LET profile == get_user(users, k.u)
       IN Resume(k, IF profile = NoRow
                    THEN [k EXCEPT !.msg = "no_profile", !.pc = "clear"]
                    ELSE IF profile.team = NULL
                    THEN [k EXCEPT !.msg = "no_team", !.pc = "clear"]
                    ELSE ShareStart([k EXCEPT !.team = profile.team, !.msg = "adding"]))
    /\ UNCHANGED <<env, users, fsm, perms>>

\* the loop over range(1, MAX_SHARE_ATTEMPTS + 2): one more pass
AfterAttempt_OneMore(task, r) ==
    LET a == task.attempt
        made == [task EXCEPT !.calls = @ + 1, !.last = r]
    IN IF r.exc = "none" \/ (r.exc = "HttpError" /\ r.status = 409)
       THEN [made EXCEPT !.out = task.folder, !.pc = "record_share"]
       ELSE IF a = MAX_SHARE_ATTEMPTS + 1
       THEN [made EXCEPT !.out = "ShareFailure", !.msg = _map_user_message(r), !.pc = "clear"]
       ELSE [made EXCEPT !.sleeps = Append(@, Backoff(a)), !.attempt = a + 1]

\* the task after one pass of the loop, lines 129-168, with the remote service's
\* reply r: a pass that neither returns nor raises sleeps (line 168) and the range
\* moves on, and a range that is used up falls to the return of line 169
AfterAttempt(task, r) ==
    LET a == task.attempt
        o == AttemptOutcome(a, r)
        made == [task EXCEPT !.calls = @ + 1, !.last = r]
    IN CASE o = "return" -> [made EXCEPT !.out = task.folder, !.pc = "record_share"]
         [] o = "raise"  -> [made EXCEPT !.out = "ShareFailure",
                                         !.msg = _map_user_message(r), !.pc = "clear"]
         [] o = "next"   -> IF a < MAX_SHARE_ATTEMPTS
                            THEN [made EXCEPT !.sleeps = Append(@, Backoff(a)),
                                              !.attempt = a + 1]
                            ELSE [made EXCEPT !.out = task.folder, !.pc = "record_share"]

\* the remote service creates the permission, or reports that it exists
Granted(r) == r.exc = "none" \/ (r.exc = "HttpError" /\ r.status = 409)

ShareAttempt(k, r) ==
    /\ k.h = "collect_email" /\ k.pc = "attempt"
    /\ perms' = IF Granted(r) THEN perms \cup {<<k.folder, k.email>>} ELSE perms
    /\ Resume(k, AfterAttempt(k, r))
    /\ UNCHANGED <<env, users, fsm>>

\* line 225, in its thread; the answers of lines 226-231 follow
EmailRecordShare(k) ==
    /\ k.h = "collect_email" /\ k.pc = "record_share"
    /\ users' = record_share(users, k.u)
    /\ Resume(k, [k EXCEPT !.writes = @ + 1, !.records = @ + 1,
                           !.msg = "added", !.pc = "clear"])
    /\ UNCHANGED <<env, fsm, perms>>

\* state.clear() at the end of the try body instead of in the finally clause
EmailClear_InTry(k) ==
    /\ k.h = "collect_email" /\ k.pc = "clear"
    /\ fsm' = IF k.records = 1 \/ k.out = "none" THEN [fsm EXCEPT ![k.u] = NULL] ELSE fsm
    /\ Return(k)
    /\ UNCHANGED <<env, users, perms>>

\* state.clear() of lines 215, 220 and 241; the handler returns
EmailClear(k) ==
    /\ k.h = "collect_email" /\ k.pc = "clear"
    /\ fsm' = [fsm EXCEPT ![k.u] = NULL]
    /\ Return(k)
    /\ UNCHANGED <<env, users, perms>>

\* ---------------------------------------------------------- specification
\* the dispatcher starts a handler for an update that its filters accept
Dispatch ==
    \/ \E u \in Users : StartBegin(u)
    \/ \E u \in Users, phone \in Phones : ContactBegin(u, phone)
    \/ \E u \in Users : ForceContactBegin(u)
    \/ \E u \in Users, team \in CallbackTeams : TeamBegin(u, team)
    \/ \E u \in Users, text \in Texts : EmailBegin(u, text)

\* a handler in flight resumes
Step ==
    \/ \E k \in Tasks : StartGetUser(k)
    \/ \E k \in Tasks : StartSetState(k)
    \/ \E k \in Tasks : ContactEnsureUser(k)
    \/ \E k \in Tasks : ContactSetState(k)
    \/ \E k \in Tasks : AnswerReturn(k)
    \/ \E k \in Tasks : TeamUpdate(k)
    \/ \E k \in Tasks : TeamSetState(k)
    \/ \E k \in Tasks : EmailUpdate(k)
    \/ \E k \in Tasks : EmailGetUser(k)
    \/ \E k \in Tasks, r \in Replies : ShareAttempt(k, r)
    \/ \E k \in Tasks : EmailRecordShare(k)
    \/ \E k \in Tasks : EmailClear(k)

Next == Dispatch \/ Step

Spec == Init /\ [][Next]_vars

\* the same handlers when updates arrive one at a time: a handler is started
\* only when none is in flight
NextSeq == (tasks = EmptyBag /\ Dispatch) \/ Step

SpecSeq == Init /\ [][NextSeq]_vars

\* ------------------------------------------------------ the store on its own
\* storage.py called directly, in any order and with any arguments, on the table
\* that init_db creates; tasks holds the call that has just returned.
Ids == 1..NumIds

\* SUM(CASE WHEN shared_at IS NOT NULL THEN 1 ELSE 0 END) over the rows of a group
RECURSIVE SumAdded(_, _)
SumAdded(tbl, group) ==
    IF group = {} THEN 0
    ELSE LET i == CHOOSE x \in group : TRUE
         IN (IF tbl[i].shared_at # NULL THEN 1 ELSE 0) + SumAdded(tbl, group \ {i})

\* the aggregate taken as COUNT(*): every row of the group counts as added
all_teams_with_counts_CountAll(tbl) ==
    LET rows == {i \in DOMAIN tbl : tbl[i] # NoRow /\ tbl[i].team # NULL}
        Group(t) == {i \in rows : tbl[i].team = t}
    IN {[team |-> t, total |-> Cardinality(Group(t)), added |-> Cardinality(Group(t))] :
            t \in {tbl[i].team : i \in rows}}

\* _all_teams_with_counts_sync: SELECT team, COUNT(*), SUM(...) FROM users
\* WHERE team IS NOT NULL GROUP BY team
all_teams_with_counts(tbl) ==
    LET rows == {i \in DOMAIN tbl : tbl[i] # NoRow /\ tbl[i].team # NULL}
        Group(t) == {i \in rows : tbl[i].team = t}
    IN {[team |-> t, total |-> Cardinality(Group(t)), added |-> SumAdded(tbl, Group(t))] :
            t \in {tbl[i].team : i \in rows}}

\* a call of storage.py that has returned out; the functions that write return
\* None, and an UPDATE that matches no row raises nothing
StoreCall(h, id, arg, out) ==
    [Blank EXCEPT !.h = h, !.u = id, !.arg = arg, !.pc = "returned", !.out = out]

InitStore ==
    /\ env = [DEFAULT_DRIVE_FOLDER |-> NULL]
    /\ users = [i \in Ids |-> NoRow]
    /\ fsm = [i \in Ids |-> NULL]
    /\ perms = {}
    /\ tasks = EmptyBag

EnsureUser(id, phone) ==
    /\ users' = ensure_user(users, id, phone)
    /\ tasks' = SetToBag({StoreCall("ensure_user", id, phone, "None")})
    /\ UNCHANGED <<env, fsm, perms>>

UpdateTeam(id, team) ==
    /\ users' = update_team(users, id, team)
    /\ tasks' = SetToBag({StoreCall("update_team", id, team, "None")})
    /\ UNCHANGED <<env, fsm, perms>>

UpdateEmail(id, email) ==
    /\ users' = update_email(users, id, email)
    /\ tasks' = SetToBag({StoreCall("update_email", id, email, "None")})
    /\ UNCHANGED <<env, fsm, perms>>

RecordShare(id) ==
    /\ users' = record_share(users, id)
    /\ tasks' = SetToBag({StoreCall("record_share", id, NULL, "None")})
    /\ UNCHANGED <<env, fsm, perms>>

GetUser(id) ==
    /\ tasks' = SetToBag({StoreCall("get_user", id, NULL, get_user(users, id))})
    /\ UNCHANGED <<env, users, fsm, perms>>

AllTeamsWithCounts ==
    /\ tasks' = SetToBag({StoreCall("all_teams_with_counts", 0, NULL,
                                    all_teams_with_counts(users))})
    /\ UNCHANGED <<env, users, fsm, perms>>

NextStore ==
    \/ \E id \in Ids, phone \in Phones : EnsureUser(id, phone)
    \/ \E id \in Ids, team \in TEAM_CHOICES : UpdateTeam(id, team)
    \/ \E id \in Ids : UpdateEmail(id, "a@b.c")
    \/ \E id \in Ids : RecordShare(id)
    \/ \E id \in Ids : GetUser(id)
    \/ AllTeamsWithCounts

SpecStore == InitStore /\ [][NextStore]_vars

\* ------------------------------------------------------- users side by side
\* Several users at once: the updates of one user are handled one at a time, and
\* the handlers of different users interleave at their awaits.
Peers == 1..NumPeers

\* the texts and the replies of the remote service that are tried side by side
PeerTexts == {"not-an-email", "a@b.c"}
PeerReplies == {r \in Replies : r.status \in {200, 403} \/ r.exc = "timeout"}

InitPeers ==
    /\ env \in [DEFAULT_DRIVE_FOLDER : {NULL, "F0"}]
    /\ users = [u \in Peers |-> NoRow]
    /\ fsm = [u \in Peers |-> NULL]
    /\ perms = {}
    /\ tasks = EmptyBag

DispatchPeers ==
    \/ \E u \in Peers : Quiet(u) /\ StartBegin(u)
    \/ \E u \in Peers, phone \in Phones : Quiet(u) /\ ContactBegin(u, phone)
    \/ \E u \in Peers : Quiet(u) /\ ForceContactBegin(u)
    \/ \E u \in Peers, team \in CallbackTeams : Quiet(u) /\ TeamBegin(u, team)
    \/ \E u \in Peers, text \in PeerTexts : Quiet(u) /\ EmailBegin(u, text)

StepPeers ==
    \/ \E k \in Tasks : StartGetUser(k)
    \/ \E k \in Tasks : StartSetState(k)
    \/ \E k \in Tasks : ContactEnsureUser(k)
    \/ \E k \in Tasks : ContactSetState(k)
    \/ \E k \in Tasks : AnswerReturn(k)
    \/ \E k \in Tasks : TeamUpdate(k)
    \/ \E k \in Tasks : TeamSetState(k)
    \/ \E k \in Tasks : EmailUpdate(k)
    \/ \E k \in Tasks : EmailGetUser(k)
    \/ \E k \in Tasks, r \in PeerReplies : ShareAttempt(k, r)
    \/ \E k \in Tasks : EmailRecordShare(k)
    \/ \E k \in Tasks : EmailClear(k)

NextPeers == DispatchPeers \/ StepPeers

SpecPeers == InitPeers /\ [][NextPeers]_vars

\* ----------------------------------------------------------------- claims
\* task k took a step (it resumed, or it returned)
Moved(k) == CopiesIn(k, tasks') < CopiesIn(k, tasks)

\* k is the task a step has started, or what the task that moved has become
NewIn(k) == CopiesIn(k, tasks') > CopiesIn(k, tasks)

\* a handler returned in this step
Returned == BagCardinality(tasks') < BagCardinality(tasks)

\* shared_at of a user, NULL without a row
SharedAt(tbl, u) == IF tbl[u] = NoRow THEN NULL ELSE tbl[u].shared_at

\* an invocation of collect_email that got past the syntax check
EmailStep(k) == k.h = "collect_email" /\ k.pc # "answer"

\* the classes of replies the specification names
Conflict(r) == r.exc = "HttpError" /\ r.status = 409
NonRetryable(r) == r.exc = "HttpError" /\ r.status \in {400, 403, 404}
Retryable(r) == (r.exc = "HttpError" /\ r.status \in {429, 500}) \/ r.exc \in NetworkExceptions

\* C1: update_email with a new email on a profile whose shared_at is set leaves
\* the new email and a null shared_at, in the very step that performs it.
C1_SetEmailClearsGrant ==
    [][\A k \in Tasks :
          (k.pc = "update_email" /\ Moved(k) /\ SharedAt(users, k.u) # NULL
              /\ users[k.u].email # k.email)
              => (users'[k.u].email = k.email /\ SharedAt(users', k.u) = NULL)]_vars

\* C2: whenever no handler of a user is in flight, the user's shared_at is
\* non-null exactly if a remote grant has completed for the stored email.
C2_GrantedIffGrantCompleted ==
    \A u \in Users :
        (users[u] # NoRow /\ Quiet(u))
            => ((users[u].shared_at # NULL) <=> (\E p \in perms : p[2] = users[u].email))

\* C3: at most one email step of a user is in flight at any time: a second
\* one does not begin before the first has resolved.
C3_EmailStepsSerialized ==
    \A u \in Users :
        BagCardinality([k \in {x \in Tasks : EmailStep(x) /\ x.u = u} |-> tasks[k]]) <= 1

\* C4: after a reply of 400, 403 or 404 the share call has stopped with a
\* ShareFailure: it is not waiting to make another attempt.
C4_NonRetryableStops ==
    \A k \in Tasks : NonRetryable(k.last) => (k.pc = "clear" /\ k.out = "ShareFailure")

\* C5: a share call fails only after exactly 3 remote calls, having slept 1.5 s
\* and 3 s, and its step never calls record_share; a retryable failure is
\* answered by the next attempt after the sleep, and at the third call by the failure.
C5_RetryExhaustion ==
    \A k \in Tasks :
        /\ k.out = "ShareFailure"
              => (k.calls = 3 /\ k.sleeps = <<15, 30>> /\ k.records = 0 /\ k.pc = "clear")
        /\ Retryable(k.last)
              => IF k.calls = 3
                 THEN k.out = "ShareFailure"
                 ELSE /\ k.pc = "attempt" /\ k.out = "none"
                      /\ k.attempt = k.calls + 1
                      /\ k.sleeps = SubSeq(<<15, 30>>, 1, k.calls)

C5_Witness ==
    \E k \in Tasks : k.out = "ShareFailure" /\ k.pc = "clear" /\ k.calls = 3 /\ Retryable(k.last)

\* C6: a 409 reply ends the share call at that attempt with the team's folder, and
\* the step goes on to record_share, after which the user's shared_at is set.
C6_ConflictIsSuccess ==
    \A k \in Tasks :
        Conflict(k.last)
            => /\ k.out # NULL /\ k.out = _folder_for_team(k.team)
               /\ k.calls = k.attempt
               /\ k.pc \in {"record_share", "clear"}
               /\ k.pc = "clear" => (k.records = 1 /\ SharedAt(users, k.u) # NULL)

C6_Witness ==
    \E k \in Tasks :
        Conflict(k.last) /\ k.pc = "clear" /\ k.calls = 2 /\ SharedAt(users, k.u) # NULL

\* C7: when the permission for (folder, email) already exists from an earlier
\* successful call, an attempt the remote service answers with success or
\* with 409 makes the call return the same folder.
C7_IdempotentGrant ==
    [][\A k \in Tasks : \A k2 \in BagToSet(tasks') :
          (k.pc = "attempt" /\ Moved(k) /\ NewIn(k2)
              /\ <<k.folder, k.email>> \in perms
              /\ (k2.last.exc = "none" \/ Conflict(k2.last)))
              => (k2.out = k.folder /\ k2.pc = "record_share")]_vars

\* a second successful call: the user's earlier grant was recorded, and the only
\* permission that exists is the one this call asked for
C7_Witness ==
    \E k \in Tasks :
        /\ k.pc = "record_share" /\ k.records = 0
        /\ SharedAt(users, k.u) # NULL
        /\ perms = {<<k.folder, k.email>>}

\* the texts the claim lists: empty, no "@", no "." after the "@", or whitespace
ListedInvalid(cs) ==
    \/ cs = << >>
    \/ \A i \in 1..Len(cs) : cs[i] # "@"
    \/ \A i, j \in 1..Len(cs) : (cs[i] = "@" /\ i < j) => cs[j] # "."
    \/ \E i \in 1..Len(cs) : IsSpace(cs[i])

\* the stripped text an invocation of collect_email works on
TextOf(k) == IF k.arg # NULL THEN Strip(Chars(k.arg)) ELSE Chars(k.email)

\* C8: an invocation of collect_email on a text of the listed kinds, and any
\* invocation that rejects its text, only answers: it makes no store write and
\* no remote call, and its steps leave the table, the permissions and the
\* registration state, which is waiting_for_email when it starts, as they are.
C8_InvalidEmailHoldsState ==
    [][/\ \A k \in BagToSet(tasks') :
            (k.h = "collect_email" /\ (ListedInvalid(TextOf(k)) \/ k.arg # NULL))
                => (k.pc = "answer" /\ k.writes = 0 /\ k.calls = 0)
       /\ \A k \in Tasks \cup BagToSet(tasks') :
            (k.h = "collect_email" /\ k.pc = "answer" /\ (Moved(k) \/ NewIn(k)))
                => /\ UNCHANGED <<users, fsm, perms>>
                   /\ NewIn(k) => fsm[k.u] = waiting_for_email]_vars

C8_Witness ==
    \E k \in Tasks :
        /\ k.h = "collect_email" /\ k.pc = "answer" /\ k.arg = "not-an-email"
        /\ fsm[k.u] = waiting_for_email

C10_RecordOnlyAfterGrant ==
    [][/\ \A k \in BagToSet(tasks') :
            /\ k.records > 0 => (k.records = 1 /\ Granted(k.last) /\ k.out = k.folder)
            /\ k.out \in {"ShareFailure", "Exception"} => k.records = 0
       /\ (\E u \in Users : SharedAt(users', u) # SharedAt(users, u))
            => \E k \in Tasks :
                  /\ Moved(k) /\ k.h = "collect_email" /\ k.pc = "record_share"
                  /\ Granted(k.last) /\ k.out = k.folder /\ k.records = 0
                  /\ \A u \in Users \ {k.u} : SharedAt(users', u) = SharedAt(users, u)]_vars

C10_Witness ==
    \E k \in Tasks :
        k.records = 1 /\ k.pc = "clear" /\ Granted(k.last) /\ SharedAt(users, k.u) = Now

\* C11: once an email step has ended in a ShareFailure (the profile has an email
\* and no shared_at, a folder is configured for every team, and the user's state
\* is cleared with no handler in flight), a valid email text sent next, with no
\* /start in between, is accepted as a new email step.
C11_RetryFromIdle ==
    \A u \in Users :
        (/\ Quiet(u) /\ fsm[u] = NULL
         /\ users[u] # NoRow /\ users[u].email # NULL /\ users[u].shared_at = NULL
         /\ env.DEFAULT_DRIVE_FOLDER # NULL
         /\ BagCardinality(tasks) < MaxTasks)
            => ENABLED EmailBegin(u, "a@b.c")

\* the call that a step of the store on its own has made
Called(k) == k \in BagToSet(tasks') /\ k.pc = "returned"

\* C12: update_team and update_email for an id that has no row fail with NotFound
\* and create no row.
C12_MissingRowNotFound ==
    [][\A k \in BagToSet(tasks') :
          (Called(k) /\ k.h \in {"update_team", "update_email"} /\ users[k.u] = NoRow)
              => (k.out = "NotFound" /\ users'[k.u] = NoRow)]_vars

\* the profiles of team t, and those of them with a non-null shared_at
Members(t) == {i \in DOMAIN users : users[i] # NoRow /\ users[i].team = t}
GrantedMembers(t) == {i \in Members(t) : users[i].shared_at # NULL}

\* C13: the rows all_teams_with_counts returns are, for every team that has a
\* profile, one row with total = the number of its profiles and added = the number
\* of those with a non-null shared_at, and no row for any other team or for NULL.
C13_TeamSummary ==
    \A k \in Tasks :
        k.h = "all_teams_with_counts"
            => /\ \A t \in TEAM_CHOICES :
                    IF Members(t) = {}
                    THEN \A row \in k.out : row.team # t
                    ELSE [team |-> t, total |-> Cardinality(Members(t)),
                          added |-> Cardinality(GrantedMembers(t))] \in k.out
               /\ \A row \in k.out : row.team \in TEAM_CHOICES /\ Members(row.team) # {}
               /\ \A r1, r2 \in k.out : r1.team = r2.team => r1 = r2

\* the example of the claim: two profiles of one team, one of them granted, a
\* granted profile of the other team, and the summary taken
C13_Witness ==
    \E k \in Tasks :
        /\ k.h = "all_teams_with_counts"
        /\ \E a, b, c \in Ids :
              /\ users[a] # NoRow /\ users[a].team = "T1" /\ users[a].shared_at # NULL
              /\ users[b] # NoRow /\ users[b].team = "T1" /\ users[b].shared_at = NULL
              /\ users[c] # NoRow /\ users[c].team = "T2" /\ users[c].shared_at # NULL
        /\ k.out = {[team |-> "T1", total |-> 2, added |-> 1],
                    [team |-> "T2", total |-> 1, added |-> 1]}

\* C14: the team of every profile is null or one of TEAM_CHOICES; an invocation
\* of select_team with any other team never calls update_team, its steps leave
\* the table, the permissions and the registration state, which is
\* waiting_for_team when it starts, as they are, and it ends by answering.
C14_TeamInConfiguredList ==
    [][/\ \A u \in Users :
            users'[u] # NoRow => users'[u].team \in TEAM_CHOICES \cup {NULL}
       /\ \A k \in BagToSet(tasks') :
            (k.h = "select_team" /\ k.arg \notin TEAM_CHOICES)
                => (k.pc \in {"callback_answer", "answer"} /\ k.writes = 0)
       /\ \A k \in Tasks \cup BagToSet(tasks') :
            (k.h = "select_team" /\ k.arg \notin TEAM_CHOICES /\ (Moved(k) \/ NewIn(k)))
                => /\ UNCHANGED <<users, fsm, perms>>
                   /\ (NewIn(k) /\ k.pc = "callback_answer") => fsm[k.u] = waiting_for_team]_vars

\* a selection that is not in the list has been rejected; the user is still
\* waiting_for_team and has no team
C14_Witness ==
    \E k \in Tasks :
        /\ k.h = "select_team" /\ k.arg = "T9" /\ k.pc = "answer" /\ k.msg = "unknown_team"
        /\ fsm[k.u] = waiting_for_team
        /\ users[k.u] # NoRow /\ users[k.u].team = NULL

\* C15: a share call for a team that has no entry in TEAM_FOLDER_MAP, with no
\* default folder configured, ends in the configuration error, and a share call
\* that ended so has made no remote call, no attempt and no sleep, and its step
\* does not call record_share.
C15_ConfigurationErrorBeforeCalls ==
    \A k \in Tasks :
        /\ (/\ k.h = "collect_email" /\ k.team # NULL
            /\ k.team \notin DOMAIN TEAM_FOLDER_MAP
            /\ env.DEFAULT_DRIVE_FOLDER = NULL)
               => k.out = "Exception"
        /\ k.out = "Exception"
               => /\ k.calls = 0 /\ k.attempt = 0 /\ k.sleeps = << >>
                  /\ k.records = 0 /\ k.pc = "clear"
                  /\ k.last = NoReply

C15_Witness ==
    \E k \in Tasks :
        /\ k.h = "collect_email" /\ k.team = "T2" /\ env.DEFAULT_DRIVE_FOLDER = NULL
        /\ k.out = "Exception" /\ k.msg = "share_error" /\ k.calls = 0
        /\ perms = {} /\ SharedAt(users, k.u) = NULL

\* the message the specification's table gives for the cause r of a failure
CategoryMessage(r) ==
    IF r.exc = "HttpError" /\ r.status \in {400, 404} THEN "bad_address"
    ELSE IF r.exc = "HttpError" /\ r.status = 403 THEN "no_access"
    ELSE IF Retryable(r) THEN "network"
    ELSE "unexpected"

\* C16: the message of every ShareFailure is the one the table gives for the
\* cause of the last attempt: 400/404 the bad address, 403 the missing access,
\* rate limiting, 5xx, timeout and TLS errors the unstable connection, anything
\* else the generic one.
C16_MessageByCategory ==
    \A k \in Tasks : k.out = "ShareFailure" => k.msg = CategoryMessage(k.last)

\* C17: a share call makes at most 3 remote calls: while it is in its loop it has
\* made fewer than 3, and once it has made the third, or has left the loop, it
\* has ended, by returning the folder or by raising a ShareFailure.
C17_BoundedAttempts ==
    \A k \in Tasks :
        k.h = "collect_email"
            => /\ k.calls <= 3
               /\ k.pc = "attempt" => (k.calls < 3 /\ k.attempt = k.calls + 1 /\ k.out = "none")
               /\ (k.calls = 3 \/ (k.calls > 0 /\ k.pc # "attempt"))
                     => /\ k.pc \in {"record_share", "clear"}
                        /\ k.out \in {k.folder, "ShareFailure"}

\* the third call is the one that succeeds
C17_Witness ==
    \E k \in Tasks :
        /\ k.calls = 3 /\ k.pc = "record_share" /\ k.out = k.folder
        /\ k.last.exc = "none" /\ k.sleeps = <<15, 30>>

\* C18: a step of a handler of one user, and the start of one, leaves the row
\* and the registration state of every other user as they are.
C18_OtherUsersUntouched ==
    [][\A k \in Tasks \cup BagToSet(tasks') :
          (Moved(k) \/ NewIn(k))
              => \A b \in DOMAIN users \ {k.u} : users'[b] = users[b] /\ fsm'[b] = fsm[b]]_vars

\* one user's email step has recorded its grant while another user, who has a
\* row without a grant, is in the middle of a share call
C18_Witness ==
    \E k1, k2 \in Tasks :
        /\ k1.u # k2.u
        /\ k1.pc = "clear" /\ k1.records = 1 /\ users[k1.u].shared_at = Now
        /\ k2.pc = "attempt" /\ k2.calls = 1
        /\ users[k2.u] # NoRow /\ users[k2.u].shared_at = NULL
        /\ fsm[k1.u] = waiting_for_email /\ fsm[k2.u] = waiting_for_email

\* a profile with a phone on file
HasPhone(tbl, u) == tbl[u] # NoRow /\ tbl[u].phone # NULL

\* C19: start_command is started whatever the registration state is and clears
\* it; it then reads the profile and ends by setting waiting_for_team if the
\* profile it read has a phone (such a profile still has it then) and
\* waiting_for_phone otherwise; none of its steps writes to the table or
\* calls the remote service.
C19_StartResetsState ==
    [][/\ \A u \in Users : ENABLED StartBegin(u) \/ BagCardinality(tasks) >= MaxTasks
       /\ \A k \in Tasks \cup BagToSet(tasks') :
            (k.h = "start_command" /\ (Moved(k) \/ NewIn(k)))
                => /\ UNCHANGED <<users, perms>>
                   /\ k.writes = 0 /\ k.calls = 0
                   /\ (NewIn(k) /\ k.pc = "get_user") => fsm'[k.u] = NULL
                   /\ (Moved(k) /\ k.pc = "get_user")
                         => \A k2 \in BagToSet(tasks') :
                               NewIn(k2) => (k2.has_phone <=> HasPhone(users, k.u))
                   /\ (Moved(k) /\ k.pc = "set_state")
                         => /\ fsm'[k.u] = IF k.has_phone THEN waiting_for_team
                                                          ELSE waiting_for_phone
                            /\ k.has_phone => HasPhone(users, k.u)]_vars

\* a user who has registered an email sends /start again: the state is cleared
\* and the handler, having found the phone, is about to set waiting_for_team
C19_Witness ==
    \E k \in Tasks :
        /\ k.h = "start_command" /\ k.pc = "set_state" /\ k.has_phone
        /\ fsm[k.u] = NULL
        /\ users[k.u] # NoRow /\ users[k.u].email # NULL

\* C20: force_contact, which takes every message without a contact while the
\* state is waiting_for_phone, only answers: no store write, and the table and
\* the state stay as they are.  collect_contact, which takes a contact, first
\* calls ensure_user with the phone, leaving the state alone, and sets
\* waiting_for_team only in a later step, when the row with the phone is
\* in the table.  A phone is never stored by any other step.
C20_PhoneStep ==
    [][/\ \A k \in Tasks \cup BagToSet(tasks') :
            (k.h = "force_contact" /\ (Moved(k) \/ NewIn(k)))
                => /\ UNCHANGED <<users, fsm, perms>>
                   /\ k.writes = 0
                   /\ NewIn(k) => fsm[k.u] = waiting_for_phone
       /\ \A k \in Tasks \cup BagToSet(tasks') :
            (k.h = "collect_contact" /\ (Moved(k) \/ NewIn(k)))
                => /\ (NewIn(k) /\ k.pc = "ensure_user")
                         => (fsm[k.u] = waiting_for_phone /\ UNCHANGED <<users, fsm>>)
                   /\ (Moved(k) /\ k.pc = "ensure_user")
                         => (UNCHANGED fsm /\ users'[k.u].phone = k.arg)
                   /\ (Moved(k) /\ k.pc = "set_state")
                         => /\ k.writes = 1 /\ HasPhone(users, k.u)
                            /\ fsm'[k.u] = waiting_for_team
                            /\ UNCHANGED users
       /\ \A u \in Users :
            users'[u].phone # users[u].phone
                => \E k \in Tasks :
                      /\ Moved(k) /\ k.h = "collect_contact" /\ k.pc = "ensure_user"
                      /\ k.u = u /\ users'[u].phone = k.arg]_vars

\* the contact has been stored and the state is still waiting_for_phone, while a
\* message without a contact is being answered
C20_Witness ==
    \E k1, k2 \in Tasks :
        /\ k1.h = "collect_contact" /\ k1.pc = "set_state" /\ k1.writes = 1
        /\ k2.h = "force_contact" /\ k2.u = k1.u
        /\ fsm[k1.u] = waiting_for_phone
        /\ users[k1.u] # NoRow /\ users[k1.u].phone = k1.arg

\* C21: a user whose state is waiting_for_team or waiting_for_email has a row
\* with a phone, and one whose state is waiting_for_email has a team of
\* TEAM_CHOICES in it; no invocation of collect_email takes the "no profile" or
\* the "no team" branch.
C21_StateImpliesProfile ==
    /\ \A u \in Users :
          /\ fsm[u] \in {waiting_for_team, waiting_for_email} => HasPhone(users, u)
          /\ fsm[u] = waiting_for_email => users[u].team \in TEAM_CHOICES
    /\ \A k \in Tasks :
          k.h = "collect_email"
              => /\ k.msg \notin {"no_profile", "no_team"}
                 /\ k.pc \in {"attempt", "record_share", "clear"} => k.team \in TEAM_CHOICES

\* an email step has read the profile and gone on to the share call
C21_Witness ==
    \E k \in Tasks :
        /\ k.h = "collect_email" /\ k.pc = "attempt" /\ k.msg = "adding"
        /\ fsm[k.u] = waiting_for_email
        /\ users[k.u].team = k.team /\ users[k.u].phone \in Phones

\* C22: no step removes a row, and no step takes a row's shared_at from
\* non-null back to null.
C22_SharedAtStays ==
    [][\A u \in DOMAIN users :
          /\ users[u] # NoRow => users'[u] # NoRow
          /\ SharedAt(users, u) # NULL => SharedAt(users', u) # NULL]_vars

\* a granted profile whose email has since been replaced by one that has no
\* permission: shared_at is still set
C22_Witness ==
    \E k \in Tasks :
        /\ k.h = "collect_email" /\ k.pc = "attempt" /\ k.calls = 0
        /\ users[k.u].email = k.email /\ users[k.u].shared_at = Now
        /\ \A p \in perms : p[2] # k.email

\* C23: a registration state of waiting_for_phone or waiting_for_team, as
\* start_command leaves it, changes only in a step of the user's start_command,
\* collect_contact or select_team: an email step still in flight does not touch it.
C23_StartStateHeld ==
    [][\A u \in Users :
          (fsm[u] \in {waiting_for_phone, waiting_for_team} /\ fsm'[u] # fsm[u])
              => \E k \in Tasks \cup BagToSet(tasks') :
                    /\ k.u = u /\ (Moved(k) \/ NewIn(k))
                    /\ k.h \in {"start_command", "collect_contact", "select_team"}]_vars

\* C24: a share call that has returned a folder has returned its own folder on
\* a reply of success or 409, for which the permission exists; a call whose
\* third reply is a failure has raised ShareFailure and records nothing: the
\* return after the loop is never the way out.
C24_ReturnOnlyOnGrant ==
    \A k \in Tasks :
        k.h = "collect_email"
            => /\ k.out \notin {"none", "ShareFailure", "Exception"}
                     => /\ k.out = k.folder /\ Granted(k.last)
                        /\ <<k.folder, k.email>> \in perms
               /\ (k.calls = 3 /\ ~Granted(k.last))
                     => (k.out = "ShareFailure" /\ k.pc = "clear" /\ k.records = 0)

\* three failures, the last of them not an HttpError and none of them retried
\* into a grant
C24_Witness ==
    \E k \in Tasks :
        /\ k.calls = 3 /\ k.attempt = 3 /\ k.last.exc = "Exception"
        /\ k.out = "ShareFailure" /\ k.msg = "unexpected"
        /\ perms = {} /\ SharedAt(users, k.u) = NULL


=============================================================================
